---- MODULE Spec2Model ----
(***************************************************************************)
(* BenchSpotter: the bench search service (src/src/services/api.js).       *)
(*                                                                         *)
(* benchService.search fetches rows from the backend (text and view-type   *)
(* filters are applied by the backend query), derives avgRating, distance  *)
(* and ratingsCount for every row, filters by distance and rating, sorts   *)
(* and returns.                                                            *)
(*                                                                         *)
(* The specifications share the variables:                                 *)
(*   Spec          one call of benchService.search on a benches table;     *)
(*   ScreenSpec    SearchScreen (src/unnamed/part_013): the effect that    *)
(*                 calls performSearch, and the answers of the calls;      *)
(*   DistanceSpec  calculateDistance on a grid of valid coordinates;       *)
(*   StoreSpec     benchService.create and benchService.update with the    *)
(*                 schemas of src/src/validation/schemas.js;               *)
(*   RatingSpec    ratingService.upsert;                                   *)
(*   DeleteSpec    benchService.delete, step by step;                      *)
(*   PhotoSpec     overlapping calls of photoService.setPrimary;           *)
(*   FavoriteSpec  overlapping calls of favoriteService.toggle;            *)
(*   NotifySpec    the services that create notifications;                 *)
(*   FeedSpec      FeedScreen.toggleFavorite (src/src/screens).            *)
(*                                                                         *)
(* Numbers.  JavaScript numbers are IEEE-754 doubles; the model computes   *)
(* in fixed point with round-to-nearest:                                   *)
(*   - angles and trigonometric values in units of 1/S (S = 10^8);         *)
(*   - degrees in tenths of a degree;                                      *)
(*   - distances in metres (1/1000 km);                                    *)
(*   - ratings in units of 1/RatingUnit, in which every average of the     *)
(*     modelled rating lists is exact, so that comparing two averages in   *)
(*     the model gives the same answer as comparing the two doubles.       *)
(* A value that is not a plain number (undefined, null, NaN, a string, a   *)
(* location object) is a record [type, val].                               *)
(***************************************************************************)
EXTENDS Integers, Sequences, FiniteSets, TLC

\* ------------------------------------------------------------------------
\* Bounds and units
\* ------------------------------------------------------------------------

\* the largest number of rows in the benches table
MaxBenches == 3

Base == 10^4
\* one fixed-point unit is 1/S
S == Base * Base
\* Math.PI, in units of 1/S
Pi == 314159265
HalfPi == (Pi + 1) \div 2
QuarterPi == HalfPi \div 2
\* R, the Earth's radius in km
EarthRadius == 6371
\* metres per km: the unit of a distance
KmUnit == 10^3
\* the unit of a rating: 1/1200 (divisible by 2 * n for n = 1, 2, 3 ratings,
\* and by 100)
RatingUnit == 12 * 100
\* the default of the maxDistance parameter, in km
DefaultMaxDistance == 10

\* ------------------------------------------------------------------------
\* JavaScript values
\* ------------------------------------------------------------------------

Undefined == [type |-> "undefined", val |-> 0]
Null == [type |-> "null", val |-> 0]
NaN == [type |-> "NaN", val |-> 0]
Num(n) == [type |-> "number", val |-> n]
Str(s) == [type |-> "string", val |-> s]
\* a string spelled out as its sequence of characters
Text(chars) == [type |-> "text", val |-> chars]
Loc(lat, lon) == [type |-> "object", val |-> <<lat, lon>>]

\* ToBoolean: undefined, null, NaN, 0 and the empty string are falsy
Truthy(x) ==
  CASE x.type \in {"undefined", "null", "NaN"} -> FALSE
    [] x.type = "number" -> x.val # 0
    [] x.type = "string" -> x.val # ""
    [] x.type = "text" -> x.val # <<>>
    [] OTHER -> TRUE

\* ------------------------------------------------------------------------
\* Fixed-point arithmetic (round to nearest), within 32-bit integers
\* ------------------------------------------------------------------------

Abs(x) == IF x < 0 THEN -x ELSE x

\* n / d rounded to nearest, n >= 0, d > 0
DivRound(n, d) == (n + d \div 2) \div d

\* a * b / S rounded to nearest, a, b >= 0, computed on the halves of a and b
FMulAbs(a, b) ==
  LET ah == a \div Base
      al == a % Base
      bh == b \div Base
      bl == b % Base
      mid == ah * bl + al * bh
      low == al * bl
  IN  ah * bh + (mid + low \div Base + Base \div 2) \div Base

\* a * b / S rounded to nearest
FMul(a, b) == (IF (a < 0) = (b < 0) THEN 1 ELSE -1) * FMulAbs(Abs(a), Abs(b))

\* the exact product q * d as <<hi, lo>>, of value hi * S + lo
Prod(q, d) ==
  LET qh == q \div Base
      ql == q % Base
      dh == d \div Base
      dl == d % Base
      mid == qh * dl + ql * dh
      lowraw == (mid % Base) * Base + ql * dl
  IN  <<qh * dh + mid \div Base + lowraw \div S, lowraw % S>>

\* q * d <= n * S
PairLeq(p, n) == p[1] < n \/ (p[1] = n /\ p[2] = 0)

ProdLeq(q, d, n) == PairLeq(Prod(q, d), n)

\* the largest q in [lo, hi) with q * d <= n * S
RECURSIVE FloorQuot(_, _, _, _)
FloorQuot(n, d, lo, hi) ==
  IF hi - lo <= 1 THEN lo
  ELSE LET m == (lo + hi) \div 2
       IN  IF ProdLeq(m, d, n) THEN FloorQuot(n, d, m, hi) ELSE FloorQuot(n, d, lo, m)

\* n / d in units of 1/S, rounded to nearest, 0 <= n <= d, d > 0
RoundQuot(n, d, q, p) == IF 2 * ((n - p[1]) * S - p[2]) >= d THEN q + 1 ELSE q

RoundQuotOf(n, d, q) == RoundQuot(n, d, q, Prod(q, d))

FDiv(n, d) == RoundQuotOf(n, d, FloorQuot(n, d, 0, S + 1))

\* the largest r in [lo, hi) with r * r <= v * S
RECURSIVE FloorRoot(_, _, _)
FloorRoot(v, lo, hi) ==
  IF hi - lo <= 1 THEN lo
  ELSE LET m == (lo + hi) \div 2
       IN  IF ProdLeq(m, m, v) THEN FloorRoot(v, m, hi) ELSE FloorRoot(v, lo, m)

\* Math.sqrt on v >= 0, correctly rounded
RoundRoot(v, r, p) == IF p[1] + (p[2] + r) \div S < v THEN r + 1 ELSE r

RoundRootOf(v, r) == RoundRoot(v, r, Prod(r, r))

Sqrt(v) == RoundRootOf(v, FloorRoot(v, 0, 2 * S))

\* sin on [0, pi/4]: x - x^3/3! + ... - x^11/11!
\* 1 - x2 * p / k
Horner(x2, p, k) == S - DivRound(FMul(x2, p), k)

SinSeries(x, x2) ==
  FMul(x, Horner(x2, Horner(x2, Horner(x2, Horner(x2, Horner(x2, S, 110), 72), 42), 20), 6))

SinPoly(x) == SinSeries(x, FMul(x, x))

\* cos on [0, pi/4]: 1 - x^2/2! + ... + x^12/12!
CosSeries(x2) ==
  Horner(x2, Horner(x2, Horner(x2, Horner(x2, Horner(x2, Horner(x2, S, 132), 90), 56), 30), 12), 2)

CosPoly(x) == CosSeries(FMul(x, x))

\* Math.sin
RECURSIVE Sin(_)
Sin(x) ==
  IF x < 0 THEN -Sin(-x)
  ELSE IF x > HalfPi THEN Sin(Pi - x)
  ELSE IF x > QuarterPi THEN CosPoly(HalfPi - x)
  ELSE SinPoly(x)

\* Math.cos
RECURSIVE Cos(_)
Cos(x) ==
  IF x < 0 THEN Cos(-x)
  ELSE IF x > HalfPi THEN -Cos(Pi - x)
  ELSE IF x > QuarterPi THEN SinPoly(HalfPi - x)
  ELSE CosPoly(x)

\* atan on [0, tan(pi/8)]: t - t^3/3 + ... - t^23/23, in Horner form
RECURSIVE AtanH(_, _)
AtanH(t2, k) == IF k > 23 THEN 0 ELSE DivRound(S, k) - FMul(t2, AtanH(t2, k + 2))

AtanPoly(t) == FMul(t, AtanH(FMul(t, t), 1))

\* tan(pi/8) = 1 / (1 + sqrt 2)
TanPi8 == FDiv(S, S + Sqrt(2 * S))

\* atan on [0, 1]
Atan(t) == IF t > TanPi8 THEN QuarterPi - AtanPoly(FDiv(S - t, S + t)) ELSE AtanPoly(t)

\* Math.atan2(y, x) for y, x >= 0
Atan2(y, x) ==
  IF y = 0 THEN 0
  ELSE IF x = 0 THEN HalfPi
  ELSE IF y <= x THEN Atan(FDiv(y, x))
  ELSE HalfPi - Atan(FDiv(x, y))

\* x / 2 rounded to nearest
Half(x) == IF x < 0 THEN -((-x + 1) \div 2) ELSE (x + 1) \div 2

\* ------------------------------------------------------------------------
\* Utility functions
\* ------------------------------------------------------------------------

\* degrees * (Math.PI / 180); degrees in tenths of a degree, and
\* pi / 1800 = 0.00174532 9252 (the constant kept to 12 decimals)
toRadians(degrees) ==
  (IF degrees < 0 THEN -1 ELSE 1)
    * (Abs(degrees) * 174532 + DivRound(Abs(degrees) * 9252, Base))

\* a, from the two sines and the two cosines
haversineTerm(sLat, sLon, cos1, cos2) ==
  FMul(sLat, sLat) + FMul(FMul(FMul(cos1, cos2), sLon), sLon)

\* haversineA with the cosine of dLon / 2 in the place of its sine
haversineACosLon(lat1, lon1, lat2, lon2) ==
  haversineTerm(Sin(Half(toRadians(lat2 - lat1))), Cos(Half(toRadians(lon2 - lon1))),
                Cos(toRadians(lat1)), Cos(toRadians(lat2)))

\* the haversine term a, in units of 1/S
haversineA(lat1, lon1, lat2, lon2) ==
  haversineTerm(Sin(Half(toRadians(lat2 - lat1))), Sin(Half(toRadians(lon2 - lon1))),
                Cos(toRadians(lat1)), Cos(toRadians(lat2)))

\* R * c, c in units of 1/S, in metres
arcLength(c, cUnit) ==
  EarthRadius * (c \div cUnit) + DivRound(EarthRadius * (c % cUnit), cUnit)

\* The distance for a, or NaN: Math.sqrt of a negative number is NaN, and NaN
\* goes through Math.atan2 and the two multiplications.
distanceForA(a) ==
  IF a < 0 \/ S - a < 0 THEN NaN
  ELSE Num(arcLength(2 * Atan2(Sqrt(a), Sqrt(S - a)), S \div KmUnit))

\* the distance in metres, or NaN
calculateDistance(lat1, lon1, lat2, lon2) == distanceForA(haversineA(lat1, lon1, lat2, lon2))

\* ------------------------------------------------------------------------
\* The benches table and the search parameters
\* ------------------------------------------------------------------------

Rating(v, c) == [view_rating |-> v, comfort_rating |-> c]

Bench(id, title, viewType, lat, lon, createdAt, ratings) ==
  [id |-> id, title |-> title, view_type |-> viewType, latitude |-> lat,
   longitude |-> lon, created_at |-> createdAt, bench_ratings |-> ratings]

\* created_at is a timestamptz: microseconds, where a Date holds milliseconds
MicrosPerMilli == 10^3

\* Rows of the benches table with their joined bench_ratings.  Coordinates in
\* tenths of a degree, created_at in microseconds.
\*   bench1: at (0, 0), never rated, created first
\*   bench2: at (0, 1), one rating, average 5
\*   bench3: at (0, -1), as far from any point of the prime meridian as
\*           bench2, created when bench2 was; average 3
\*   bench4: at (-15.6, 180), the antipode of (15.6, 0); average 3; created
\*           0.9 ms after bench1, in the same millisecond
bench1 == Bench(1, <<"O", "a", "k">>, "ocean", 0, 0, MicrosPerMilli, <<>>)
bench2 ==
  Bench(2, <<"S", "P", "I", "E", "R">>, "forest", 0, 10, 2 * MicrosPerMilli, <<Rating(5, 5)>>)
bench3 ==
  Bench(3, <<"P", "i", "e", "r">>, "ocean", 0, -10, 2 * MicrosPerMilli,
        <<Rating(1, 1), Rating(5, 5)>>)
bench4 ==
  Bench(4, <<"R", "e", "e", "f">>, "ocean", -156, 1800, MicrosPerMilli + 900,
        <<Rating(1, 2), Rating(3, 4), Rating(4, 4)>>)

BenchPool == {bench1, bench2, bench3, bench4}

\* the tables of at most n rows with distinct ids, in any order
RECURSIVE Tables(_)
Tables(n) ==
  IF n = 0 THEN {<<>>}
  ELSE LET T == Tables(n - 1)
           full == {t \in T : Len(t) = n - 1}
           fresh == {x \in full \X BenchPool : \A i \in 1..Len(x[1]) : x[1][i].id # x[2].id}
       IN  T \cup {Append(x[1], x[2]) : x \in fresh}

Queries == {Undefined, Text(<<"p", "i", "e", "r">>)}
ViewTypes == {Undefined, Str("ocean")}
RatingFilters == {Undefined, Null, Num(0), Num(RatingUnit \div 100), Num(3 * RatingUnit)}
SortKeys == {Undefined, Str("distance"), Str("rating"), Str("recent")}
\* the user at (0, 0) and at (15.6, 0); under IEEE-754 doubles
\* calculateDistance(15.6, 0, -15.6, 180) is NaN (a is 1.0000000000000002),
\* as it is in this arithmetic
LocA == Loc(0, 0)
LocB == Loc(156, 0)
UserLocations == {Undefined, LocA, LocB}
\* maxDistance in metres; the last one is the distance from (0, 0) to (0, 1)
MaxDistances == {Undefined, Null, Num(0), calculateDistance(0, 0, 0, 10)}

\* queries given with no other option: empty, blank, with blanks around,
\* and with the characters _ and %
TextQueries ==
  {Text(<<>>), Text(<<" ", " ">>), Text(<<" ", "E", "R", " ">>),
   Text(<<"p", "_", "e", "r">>), Text(<<"%">>)}

TextOnly(query) ==
  [query |-> query, viewType |-> Undefined, ratingFilter |-> Undefined,
   sortBy |-> Undefined, userLocation |-> Undefined, maxDistance |-> Undefined]

SearchParams ==
  [query : Queries, viewType : ViewTypes, ratingFilter : RatingFilters,
   sortBy : SortKeys, userLocation : UserLocations, maxDistance : MaxDistances]
    \cup {TextOnly(q) : q \in TextQueries}

\* ------------------------------------------------------------------------
\* The backend query: ilike on the title, eq on the view type
\* ------------------------------------------------------------------------

Lower(ch) ==
  CASE ch = "E" -> "e" [] ch = "I" -> "i" [] ch = "O" -> "o" [] ch = "P" -> "p"
    [] ch = "R" -> "r" [] ch = "S" -> "s" [] OTHER -> ch

RECURSIVE TrimStart(_)
TrimStart(s) == IF s # <<>> /\ Head(s) = " " THEN TrimStart(Tail(s)) ELSE s

RECURSIVE TrimEnd(_)
TrimEnd(s) ==
  IF s # <<>> /\ s[Len(s)] = " " THEN TrimEnd(SubSeq(s, 1, Len(s) - 1)) ELSE s

\* String.prototype.trim
Trim(s) == TrimEnd(TrimStart(s))

\* SQL LIKE, case-insensitive: % matches any run of characters, _ any one
RECURSIVE Ilike(_, _)
Ilike(s, p) ==
  IF p = <<>> THEN s = <<>>
  ELSE IF Head(p) = "%" THEN Ilike(s, Tail(p)) \/ (s # <<>> /\ Ilike(Tail(s), p))
  ELSE /\ s # <<>>
       /\ (Head(p) = "_" \/ Lower(Head(s)) = Lower(Head(p)))
       /\ Ilike(Tail(s), Tail(p))

\* query?.trim()
TrimmedQuery(query) == IF query.type = "text" THEN Text(Trim(query.val)) ELSE Undefined

\* supabaseQuery returning the rows that match either condition
supabaseQueryEither(table, query, viewType) ==
  LET q == TrimmedQuery(query)
      textOk(b) == Truthy(q) /\ Ilike(b.title, <<"%">> \o q.val \o <<"%">>)
      typeOk(b) == Truthy(viewType) /\ b.view_type = viewType.val
  IN  SelectSeq(table, LAMBDA b : textOk(b) \/ typeOk(b))

\* the rows the backend returns, in table order
supabaseQuery(table, query, viewType) ==
  LET q == TrimmedQuery(query)
      textOk(b) == Truthy(q) => Ilike(b.title, <<"%">> \o q.val \o <<"%">>)
      typeOk(b) == Truthy(viewType) => b.view_type = viewType.val
  IN  SelectSeq(table, LAMBDA b : textOk(b) /\ typeOk(b))

\* ------------------------------------------------------------------------
\* benchService.search
\* ------------------------------------------------------------------------

RECURSIVE SumView(_)
SumView(ratings) ==
  IF ratings = <<>> THEN 0 ELSE Head(ratings).view_rating + SumView(Tail(ratings))

RECURSIVE SumComfort(_)
SumComfort(ratings) ==
  IF ratings = <<>> THEN 0 ELSE Head(ratings).comfort_rating + SumComfort(Tail(ratings))

\* avgRatingOf dividing by the number of ratings, not of scores
avgRatingPerRating(ratings) ==
  IF Len(ratings) > 0
  THEN ((SumView(ratings) + SumComfort(ratings)) * RatingUnit) \div Len(ratings)
  ELSE 0

\* avgRating of a row's ratings, in units of 1/RatingUnit
avgRatingOf(ratings) ==
  IF Len(ratings) > 0
  THEN LET totalView == SumView(ratings)
           totalComfort == SumComfort(ratings)
       IN  ((totalView + totalComfort) * RatingUnit) \div (Len(ratings) * 2)
  ELSE 0

\* calculateDistance on the modelled coordinates, computed once
distanceTable ==
  [q \in {<<u.val[1], u.val[2], b.latitude, b.longitude>> :
            u \in {l \in UserLocations : Truthy(l)}, b \in BenchPool} |->
     calculateDistance(q[1], q[2], q[3], q[4])]

distanceOf(bench, userLocation) ==
  IF Truthy(userLocation)
  THEN distanceTable[<<userLocation.val[1], userLocation.val[2],
                       bench.latitude, bench.longitude>>]
  ELSE Null

\* processBench counting the scores, two per rating, as ratingsCount
processBenchCountsScores(bench, userLocation) ==
  [avgRating |-> avgRatingOf(bench.bench_ratings),
   distance |-> distanceOf(bench, userLocation),
   ratingsCount |-> 2 * Len(bench.bench_ratings)] @@ bench

\* the callback of benches.map
processBench(bench, userLocation) ==
  [avgRating |-> avgRatingOf(bench.bench_ratings),
   distance |-> distanceOf(bench, userLocation),
   ratingsCount |-> Len(bench.bench_ratings)] @@ bench

processAll(rows, userLocation) ==
  [i \in 1..Len(rows) |-> processBench(rows[i], userLocation)]

\* maxDistanceParam with the default also taken for null (maxDistance ?? 10)
maxDistanceNullish(maxDistance) ==
  IF maxDistance.type \in {"undefined", "null"}
  THEN Num(DefaultMaxDistance * KmUnit)
  ELSE maxDistance

\* the parameter default: maxDistance = 10 (km) when it is undefined
maxDistanceParam(maxDistance) ==
  IF maxDistance.type = "undefined" THEN Num(DefaultMaxDistance * KmUnit) ELSE maxDistance

\* ToNumber of a distance or a limit: null is 0
ToNumber(x) == IF x.type = "null" THEN Num(0) ELSE x

\* x <= y on numbers: false when either is NaN
LessEq(x, y) ==
  LET a == ToNumber(x)
      b == ToNumber(y)
  IN  a.type = "number" /\ b.type = "number" /\ a.val <= b.val

\* distanceFilter without the test maxDistance !== null
distanceFilterNoNullCheck(processed, userLocation, maxDistance) ==
  IF Truthy(userLocation)
  THEN SelectSeq(processed, LAMBDA b : b.distance # Null /\ LessEq(b.distance, maxDistance))
  ELSE processed

\* distanceFilter keeping b.distance < maxDistance
distanceFilterStrict(processed, userLocation, maxDistance) ==
  IF Truthy(userLocation) /\ maxDistance # Null
  THEN SelectSeq(processed, LAMBDA b : /\ b.distance # Null
                                       /\ LessEq(b.distance, maxDistance)
                                       /\ b.distance # ToNumber(maxDistance))
  ELSE processed

\* distanceFilter without the test of userLocation
distanceFilterNoLocationCheck(processed, userLocation, maxDistance) ==
  IF maxDistance # Null
  THEN SelectSeq(processed, LAMBDA b : b.distance # Null /\ LessEq(b.distance, maxDistance))
  ELSE processed

\* distanceFilter testing the truthiness of maxDistance: 0 counts as not set
distanceFilterTruthyLimit(processed, userLocation, maxDistance) ==
  IF Truthy(userLocation) /\ Truthy(maxDistance)
  THEN SelectSeq(processed, LAMBDA b : b.distance # Null /\ LessEq(b.distance, maxDistance))
  ELSE processed

distanceFilter(processed, userLocation, maxDistance) ==
  IF Truthy(userLocation) /\ maxDistance # Null
  THEN SelectSeq(processed, LAMBDA b : b.distance # Null /\ LessEq(b.distance, maxDistance))
  ELSE processed

\* ratingFilterStep testing ratingFilter !== null instead of its truthiness:
\* avgRating >= undefined is false
ratingFilterStepNotNull(processed, ratingFilter) ==
  IF ratingFilter # Null
  THEN SelectSeq(processed, LAMBDA b : /\ ratingFilter.type = "number"
                                       /\ b.avgRating >= ratingFilter.val)
  ELSE processed

ratingFilterStep(processed, ratingFilter) ==
  IF Truthy(ratingFilter)
  THEN SelectSeq(processed, LAMBDA b : b.avgRating >= ratingFilter.val)
  ELSE processed

\* x - y on numbers
Minus(x, y) ==
  LET a == ToNumber(x)
      b == ToNumber(y)
  IN  IF a.type = "number" /\ b.type = "number" THEN Num(a.val - b.val) ELSE NaN

\* new Date(created_at): the time value in milliseconds; the digits of the
\* timestamp after the third decimal of the second are dropped
DateOf(created_at) == created_at \div MicrosPerMilli

\* compareFn with the rating comparison the wrong way round
compareFnRatingAscending(key, a, b) ==
  CASE key = "distance" -> Minus(a.distance, b.distance)
    [] key = "rating" -> Num(a.avgRating - b.avgRating)
    [] key = "recent" -> Num(DateOf(b.created_at) - DateOf(a.created_at))

\* the three comparison functions handed to Array.prototype.sort
compareFn(key, a, b) ==
  CASE key = "distance" -> Minus(a.distance, b.distance)
    [] key = "rating" -> Num(b.avgRating - a.avgRating)
    [] key = "recent" -> Num(DateOf(b.created_at) - DateOf(a.created_at))

\* SortCompare of ECMAScript: a NaN from the comparison function counts as +0
SortCompare(key, a, b) ==
  LET v == compareFn(key, a, b) IN IF v.type = "NaN" THEN 0 ELSE v.val

\* whether the comparison function is a consistent comparator for the array
ConsistentComparator(arr, key) ==
  LET c(i, j) == SortCompare(key, arr[i], arr[j])
      I == 1..Len(arr)
  IN  \A i, j, k \in I :
        /\ c(i, i) = 0
        /\ (c(i, j) = 0 => c(j, i) = 0)
        /\ (c(i, j) = 0 /\ c(j, k) = 0 => c(i, k) = 0)
        /\ (c(i, j) < 0 /\ c(j, k) < 0 => c(i, k) < 0)
        /\ (c(i, j) > 0 /\ c(j, k) > 0 => c(i, k) > 0)

\* x put into the sorted array after the last element that is not greater
RECURSIVE InsertSorted(_, _, _)
InsertSorted(sorted, x, key) ==
  IF sorted = <<>> \/ SortCompare(key, sorted[Len(sorted)], x) <= 0
  THEN Append(sorted, x)
  ELSE Append(InsertSorted(SubSeq(sorted, 1, Len(sorted) - 1), x, key), sorted[Len(sorted)])

\* the stable sort of the array
RECURSIVE StableSort(_, _)
StableSort(arr, key) ==
  IF arr = <<>> THEN <<>>
  ELSE InsertSorted(StableSort(SubSeq(arr, 1, Len(arr) - 1), key), arr[Len(arr)], key)

Reorderings(arr) ==
  { [i \in 1..Len(arr) |-> arr[p[i]]] :
      p \in { q \in [1..Len(arr) -> 1..Len(arr)] :
                \A i, j \in 1..Len(arr) : i # j => q[i] # q[j] } }

\* Array.prototype.sort: a stable sort; with a comparison function that is not
\* a consistent comparator the order is implementation-defined
ArraySort(arr, key) ==
  IF ConsistentComparator(arr, key) THEN {StableSort(arr, key)} ELSE Reorderings(arr)

\* sortStep with the last branch taken for every other sortBy
sortStepElseRecent(processed, sortBy, userLocation) ==
  IF sortBy = Str("distance") /\ Truthy(userLocation) THEN ArraySort(processed, "distance")
  ELSE IF sortBy = Str("rating") THEN ArraySort(processed, "rating")
  ELSE ArraySort(processed, "recent")

\* the sort step: the possible orders of the returned array
sortStep(processed, sortBy, userLocation) ==
  IF sortBy = Str("distance") /\ Truthy(userLocation) THEN ArraySort(processed, "distance")
  ELSE IF sortBy = Str("rating") THEN ArraySort(processed, "rating")
  ELSE IF sortBy = Str("recent") THEN ArraySort(processed, "recent")
  ELSE {processed}

\* what search does with the rows the backend returned: the arrays it can return
searchResults(rows, o) ==
  LET processed == processAll(rows, o.userLocation)
      near == distanceFilter(processed, o.userLocation, maxDistanceParam(o.maxDistance))
      rated == ratingFilterStep(near, o.ratingFilter)
  IN  sortStep(rated, o.sortBy, o.userLocation)

\* arraysAfterSearch with the filters and the sort applied to the fetched array
arraysAfterSearchInPlace(fetched, returned) ==
  [benches |-> returned, processedBenches |-> returned]

\* The two arrays when search returns.  benches.map makes a new array of new
\* objects ({ ...bench, avgRating, distance, ratingsCount }); filter makes new
\* arrays and sort works in place, both on processedBenches.
arraysAfterSearch(fetched, returned) ==
  [benches |-> fetched, processedBenches |-> returned]

\* ------------------------------------------------------------------------
\* State
\* ------------------------------------------------------------------------

\* benches: the benches table (rows in the order the backend returns them)
\* pc:      where the search call is: "idle", "awaiting", "returned", "thrown"
\* opts:    the argument of the search call
\* result:  the array the call returned
\* data:    the array the backend answered with, as it is after the call
VARIABLES benches, pc, opts, result, data

\* The search screen:
\* screen:   the state of the component (searchQuery, viewType, ratingFilter,
\*           distanceFilter, sortBy, location, results, loading)
\* inflight: the performSearch calls awaiting api.benches.search, each with
\*           the number of the call and the argument it was made with
\* issued:   the number of performSearch calls made
\* failed:   whether a search has thrown
VARIABLES screen, inflight, issued, failed

\* calculateDistance on its own:
\* points:   the arguments <<lat1, lon1, lat2, lon2>>, in tenths of a degree
\* measured: what the call returned, undefined before it
VARIABLES points, measured

\* The other services and FeedScreen:
\* db:    the backend tables they read and write, by name
\* calls: the service calls in progress or just ended, with where each one is
\*        and what it holds
\* feed:  the state of FeedScreen
VARIABLES db, calls, feed

serviceVars == <<pc, opts, result, data>>
backendVars == <<db, calls, feed>>
screenVars == <<screen, inflight, issued, failed>>
distanceVars == <<points, measured>>
searchVars ==
  <<benches, pc, opts, result, data, screen, inflight, issued, failed, points, measured>>
vars ==
  <<benches, pc, opts, result, data, screen, inflight, issued, failed, points, measured,
    db, calls, feed>>

\* the useState initial values
ScreenMounted ==
  [searchQuery |-> Text(<<>>), viewType |-> Null, ratingFilter |-> Null,
   distanceFilter |-> Null, sortBy |-> Str("distance"), location |-> Null,
   results |-> <<>>, loading |-> FALSE]

\* no search, no screen, no distance call
SearchIdle ==
  /\ benches = <<>>
  /\ pc = "idle"
  /\ opts = Undefined
  /\ result = <<>>
  /\ data = <<>>
  /\ screen = ScreenMounted
  /\ inflight = {}
  /\ issued = 0
  /\ failed = FALSE
  /\ points = <<0, 0, 0, 0>>
  /\ measured = Undefined

\* no table, no call of the other services, no feed
BackendIdle ==
  /\ db = <<>>
  /\ calls = <<>>
  /\ feed = <<>>

Init ==
  /\ benches \in Tables(MaxBenches)
  /\ pc = "idle"
  /\ opts = Undefined
  /\ result = <<>>
  /\ data = <<>>
  /\ screen = ScreenMounted
  /\ inflight = {}
  /\ issued = 0
  /\ failed = FALSE
  /\ points = <<0, 0, 0, 0>>
  /\ measured = Undefined
  /\ BackendIdle

\* search(o) is called; it builds the query and awaits the backend
Search(o) ==
  /\ pc = "idle"
  /\ pc' = "awaiting"
  /\ opts' = o
  /\ UNCHANGED <<benches, result, data>>
  /\ UNCHANGED screenVars
  /\ UNCHANGED distanceVars
  /\ UNCHANGED backendVars

\* the backend answers with rows; search processes, filters, sorts, returns
SearchReturn ==
  /\ pc = "awaiting"
  /\ result' \in searchResults(supabaseQuery(benches, opts.query, opts.viewType), opts)
  /\ data' = arraysAfterSearch(supabaseQuery(benches, opts.query, opts.viewType),
                               result').benches
  /\ pc' = "returned"
  /\ UNCHANGED <<benches, opts>>
  /\ UNCHANGED screenVars
  /\ UNCHANGED distanceVars
  /\ UNCHANGED backendVars

\* the backend answers with an error; search throws it
SearchThrow ==
  /\ pc = "awaiting"
  /\ pc' = "thrown"
  /\ opts' = Undefined
  /\ UNCHANGED <<benches, result, data>>
  /\ UNCHANGED screenVars
  /\ UNCHANGED distanceVars
  /\ UNCHANGED backendVars

Next ==
  \/ \E o \in SearchParams : Search(o)
  \/ SearchReturn
  \/ SearchThrow

Spec == Init /\ [][Next]_vars

\* ------------------------------------------------------------------------
\* SearchScreen
\* ------------------------------------------------------------------------

MaxSearches == 3

\* what the user types and picks, here the search text and the sort order
ScreenChoices ==
  [searchQuery : {Text(<<>>), Text(<<"p", "i", "e", "r">>)},
   sortBy : {Str("distance"), Str("rating")}]

\* the argument performSearch gives to api.benches.search
searchArgs(sc) ==
  [query |-> sc.searchQuery, viewType |-> sc.viewType, ratingFilter |-> sc.ratingFilter,
   maxDistance |-> sc.distanceFilter, sortBy |-> sc.sortBy, userLocation |-> sc.location]

\* The effect on [searchQuery, ..., location, activeTab], for the new state sc:
\* with a location, performSearch sets loading and calls the service.
searchEffect(sc) ==
  IF Truthy(sc.location)
  THEN /\ screen' = [sc EXCEPT !.loading = TRUE]
       /\ inflight' = inflight \cup {[n |-> issued + 1, o |-> searchArgs(sc)]}
       /\ issued' = issued + 1
  ELSE /\ screen' = sc
       /\ UNCHANGED <<inflight, issued>>

ScreenInit ==
  /\ benches = <<bench1, bench2, bench3>>
  /\ pc = "idle"
  /\ opts = Undefined
  /\ result = <<>>
  /\ data = <<>>
  /\ screen = ScreenMounted
  /\ inflight = {}
  /\ issued = 0
  /\ failed = FALSE
  /\ points = <<0, 0, 0, 0>>
  /\ measured = Undefined
  /\ BackendIdle

\* getCurrentLocation: the position arrives, setLocation, and the effect runs
GetCurrentLocation ==
  /\ screen.location = Null
  /\ issued < MaxSearches
  /\ searchEffect([screen EXCEPT !.location = LocA])
  /\ UNCHANGED <<benches, failed>>
  /\ UNCHANGED serviceVars
  /\ UNCHANGED distanceVars
  /\ UNCHANGED backendVars

\* the user changes the search text or a filter, and the effect runs
ChangeSearch(c) ==
  /\ c # [searchQuery |-> screen.searchQuery, sortBy |-> screen.sortBy]
  /\ issued < MaxSearches
  /\ searchEffect([screen EXCEPT !.searchQuery = c.searchQuery, !.sortBy = c.sortBy])
  /\ UNCHANGED <<benches, failed>>
  /\ UNCHANGED serviceVars
  /\ UNCHANGED distanceVars
  /\ UNCHANGED backendVars

\* a call of api.benches.search returns: setResults, then setLoading(false)
SearchResolves(call) ==
  /\ call \in inflight
  /\ \E processedBenches \in
          searchResults(supabaseQuery(benches, call.o.query, call.o.viewType), call.o) :
        screen' = [screen EXCEPT !.results = processedBenches, !.loading = FALSE]
  /\ inflight' = inflight \ {call}
  /\ UNCHANGED <<benches, issued, failed>>
  /\ UNCHANGED serviceVars
  /\ UNCHANGED distanceVars
  /\ UNCHANGED backendVars

\* a call of api.benches.search throws: the error is logged, setLoading(false)
SearchRejects(call) ==
  /\ call \in inflight
  /\ screen' = [screen EXCEPT !.loading = FALSE]
  /\ inflight' = inflight \ {call}
  /\ failed' = TRUE
  /\ UNCHANGED <<benches, issued>>
  /\ UNCHANGED serviceVars
  /\ UNCHANGED distanceVars
  /\ UNCHANGED backendVars

ScreenNext ==
  \/ GetCurrentLocation
  \/ \E c \in ScreenChoices : ChangeSearch(c)
  \/ \E call \in inflight : SearchResolves(call)
  \/ \E call \in inflight : SearchRejects(call)

ScreenSpec == ScreenInit /\ [][ScreenNext]_vars

\* ------------------------------------------------------------------------
\* calculateDistance
\* ------------------------------------------------------------------------

\* valid coordinates, in tenths of a degree: the poles, the equator, the
\* antimeridian, and (15.6, 0) with its antipode (-15.6, 180)
Latitudes == {-900, -156, 0, 156, 489, 900}
Longitudes == {-1800, -10, 0, 23, 1800}

DistanceInit ==
  /\ points \in Latitudes \X Longitudes \X Latitudes \X Longitudes
  /\ measured = Undefined
  /\ BackendIdle
  /\ benches = <<>>
  /\ pc = "idle"
  /\ opts = Undefined
  /\ result = <<>>
  /\ data = <<>>
  /\ screen = ScreenMounted
  /\ inflight = {}
  /\ issued = 0
  /\ failed = FALSE

\* calculateDistance(lat1, lon1, lat2, lon2) is called and returns
CalculateDistance ==
  /\ measured = Undefined
  /\ measured' = calculateDistance(points[1], points[2], points[3], points[4])
  /\ UNCHANGED <<benches, points>>
  /\ UNCHANGED serviceVars
  /\ UNCHANGED screenVars
  /\ UNCHANGED backendVars

DistanceNext == CalculateDistance

DistanceSpec == DistanceInit /\ [][DistanceNext]_vars

\* ------------------------------------------------------------------------
\* benchService.create and benchService.update
\* ------------------------------------------------------------------------

MaxStored == 2
MaxTitleLength == 100

viewTypes ==
  {"ocean", "mountain", "urban", "forest", "lake", "river", "desert", "valley", "other"}

\* a title of n characters
LongTitle(n) == [i \in 1..n |-> "x"]

\* the arguments given to create: titles that are missing, empty, blank,
\* padded, of 100 and of 101 characters; coordinates in tenths of a degree
CreateInputs ==
  [title : {Undefined, Text(<<>>), Text(<<" ">>), Text(<<" ", "O", "a", "k", " ">>),
            Text(LongTitle(MaxTitleLength)), Text(LongTitle(MaxTitleLength + 1))},
   viewType : {"ocean", "swamp"},
   latitude : {900, 901},
   longitude : {-1800, 1801}]

\* the updates given to update, columns of the benches table
UpdateInputs ==
  {[title |-> <<>>], [title |-> <<"E", "l", "m">>],
   [title |-> LongTitle(MaxTitleLength + 1)], [view_type |-> "swamp"],
   [latitude |-> 901]}

\* benchCreateSchema.safeParse: the checks, made on the input as given
benchCreateSchemaAccepts(input) ==
  /\ input.title.type = "text"
  /\ Len(input.title.val) >= 1
  /\ Len(input.title.val) <= MaxTitleLength
  /\ input.latitude >= -90 * 10
  /\ input.latitude <= 90 * 10
  /\ input.longitude >= -180 * 10
  /\ input.longitude <= 180 * 10
  /\ input.viewType \in viewTypes

\* the parsed data: the title after its transform, val.trim()
validatedData(input) == [input EXCEPT !.title = Trim(input.title.val)]

\* the row the insert adds
insertedRow(id, validated) ==
  Bench(id, validated.title, validated.viewType, validated.latitude,
        validated.longitude, id * MicrosPerMilli, <<>>)

\* the row after .update({ ...updates }): the columns given are overwritten
updatedRow(row, updates) ==
  [f \in DOMAIN row |-> IF f \in DOMAIN updates THEN updates[f] ELSE row[f]]

StoreInit ==
  /\ benches = <<>>
  /\ pc = "idle"
  /\ opts = Undefined
  /\ result = <<>>
  /\ data = <<>>
  /\ screen = ScreenMounted
  /\ inflight = {}
  /\ issued = 0
  /\ failed = FALSE
  /\ points = <<0, 0, 0, 0>>
  /\ measured = Undefined
  /\ BackendIdle

\* create(input): validateOrThrow, then the insert, which the backend may
\* refuse
Create(input) ==
  /\ Len(benches) < MaxStored
  /\ IF benchCreateSchemaAccepts(input)
     THEN \/ /\ benches' = Append(benches, insertedRow(Len(benches) + 1, validatedData(input)))
             /\ pc' = "returned"
          \/ /\ pc' = "thrown"
             /\ UNCHANGED benches
     ELSE /\ pc' = "thrown"
          /\ UNCHANGED benches
  /\ UNCHANGED <<opts, result, data>>
  /\ UNCHANGED screenVars
  /\ UNCHANGED distanceVars
  /\ UNCHANGED backendVars

\* update(benchId, userId, updates) of a bench of the user: the updates go to
\* the backend as given
Update(benchId, updates) ==
  /\ benchId \in 1..Len(benches)
  /\ benches' = [benches EXCEPT ![benchId] = updatedRow(benches[benchId], updates)]
  /\ pc' = "returned"
  /\ UNCHANGED <<opts, result, data>>
  /\ UNCHANGED screenVars
  /\ UNCHANGED distanceVars
  /\ UNCHANGED backendVars

\* update finds no such bench of the user: .single() gives an error, thrown
UpdateThrow(benchId) ==
  /\ benchId \notin 1..Len(benches)
  /\ pc' = "thrown"
  /\ UNCHANGED <<benches, opts, result, data>>
  /\ UNCHANGED screenVars
  /\ UNCHANGED distanceVars
  /\ UNCHANGED backendVars

StoreNext ==
  \/ \E input \in CreateInputs : Create(input)
  \/ \E benchId \in 1..MaxStored, updates \in UpdateInputs : Update(benchId, updates)
  \/ \E benchId \in 1..MaxStored : UpdateThrow(benchId)

StoreSpec == StoreInit /\ [][StoreNext]_vars

\* ------------------------------------------------------------------------
\* ratingService.upsert
\* ------------------------------------------------------------------------

\* Rating values given to upsert, as JavaScript values; numbers in tenths, so
\* that 2.5 can be told from a whole number: 0, 1, 2.5, 5, 6, -1 and "3"
RatingInputs == {Num(0), Num(10), Num(25), Num(50), Num(60), Num(-10), Str("3")}

UpsertInputs ==
  [benchId : {1}, userId : {1}, viewRating : RatingInputs, comfortRating : RatingInputs]

\* ratingValueSchema without .int()
ratingValueSchemaAnyNumber(x) ==
  /\ x.type = "number"
  /\ x.val >= 1 * 10
  /\ x.val <= 5 * 10

\* ratingValueSchema: z.number().int().min(1).max(5)
ratingValueSchemaAccepts(x) ==
  /\ x.type = "number"
  /\ x.val % 10 = 0
  /\ x.val >= 1 * 10
  /\ x.val <= 5 * 10

ratingSchemaAccepts(input) ==
  /\ ratingValueSchemaAccepts(input.viewRating)
  /\ ratingValueSchemaAccepts(input.comfortRating)

\* the row the upsert writes
ratingRow(input) ==
  [bench_id |-> input.benchId, user_id |-> input.userId,
   view_rating |-> input.viewRating.val, comfort_rating |-> input.comfortRating.val]

\* bench_ratings after the upsert: the user's row for the bench is replaced
upsertRating(rows, row) ==
  {r \in rows : r.bench_id # row.bench_id \/ r.user_id # row.user_id} \cup {row}

RatingInit ==
  /\ SearchIdle
  /\ db = [bench_ratings |-> {}]
  /\ calls = <<>>
  /\ feed = <<>>

\* upsert(input): validateOrThrow, then the upsert, which the backend may
\* refuse; calls keeps the call, how it ended and whether it reached the
\* backend
Upsert(input) ==
  /\ IF ratingSchemaAccepts(input)
     THEN \/ /\ db' = [db EXCEPT !.bench_ratings = upsertRating(@, ratingRow(input))]
             /\ calls' = [op |-> "upsert", input |-> input, outcome |-> "returned",
                          backend |-> TRUE]
          \/ /\ calls' = [op |-> "upsert", input |-> input, outcome |-> "thrown",
                          backend |-> TRUE]
             /\ UNCHANGED db
     ELSE /\ calls' = [op |-> "upsert", input |-> input, outcome |-> "thrown",
                       backend |-> FALSE]
          /\ UNCHANGED db
  /\ UNCHANGED feed
  /\ UNCHANGED searchVars

RatingNext == \E input \in UpsertInputs : Upsert(input)

RatingSpec == RatingInit /\ [][RatingNext]_vars

\* ------------------------------------------------------------------------
\* benchService.delete
\* ------------------------------------------------------------------------

\* Bench 1 of user 1 with a photo (row and storage object), a rating, a
\* comment and a favorite; bench 2 of user 2 with a rating.  The child tables
\* hold bench_id as a foreign key, without cascade.
DeleteTables ==
  [benches |-> {[id |-> 1, user_id |-> 1], [id |-> 2, user_id |-> 2]},
   bench_photos |-> {[bench_id |-> 1, photo_url |-> "1/a.jpg"]},
   storage |-> {"1/a.jpg"},
   bench_ratings |-> {[bench_id |-> 1, user_id |-> 2], [bench_id |-> 2, user_id |-> 1]},
   comments |-> {[bench_id |-> 1, user_id |-> 2]},
   favorites |-> {[bench_id |-> 1, user_id |-> 2]}]

ChildTables == {"bench_photos", "bench_ratings", "comments", "favorites"}

\* the rows of a table that belong to the bench
rowsOfBench(table, benchId) == {r \in table : r.bench_id = benchId}

\* .delete().eq('bench_id', benchId) on a child table
deleteByBenchId(tables, name, benchId) ==
  [tables EXCEPT ![name] = @ \ rowsOfBench(@, benchId)]

\* the order of the cleanup steps, and what follows each
nextDeleteStep(step) ==
  CASE step = "storage" -> "bench_photos"
    [] step = "bench_photos" -> "bench_ratings"
    [] step = "bench_ratings" -> "comments"
    [] step = "comments" -> "favorites"
    [] step = "favorites" -> "benches"

\* whether a child row still refers to the bench
referenced(tables, benchId) ==
  \E name \in ChildTables : rowsOfBench(tables[name], benchId) # {}

\* .delete().eq('id', benchId).eq('user_id', userId) on benches
deleteBenchRow(tables, benchId, userId) ==
  [tables EXCEPT !.benches = {b \in @ : ~(b.id = benchId /\ b.user_id = userId)}]

DeleteInit ==
  /\ SearchIdle
  /\ db = DeleteTables
  /\ calls = <<>>
  /\ feed = <<>>

DeleteEnded == IF calls = <<>> THEN TRUE ELSE calls.pc \in {"returned", "thrown"}

\* delete(benchId, userId) is called and asks for the photos of the bench
DeleteCall(benchId, userId) ==
  /\ DeleteEnded
  /\ calls' = [pc |-> "getByBenchId", benchId |-> benchId, userId |-> userId,
               photos |-> {}, logged |-> FALSE]
  /\ UNCHANGED <<db, feed>>
  /\ UNCHANGED searchVars

\* photoService.getByBenchId answers; with an error it throws
DeleteGetPhotos ==
  /\ ~DeleteEnded
  /\ calls.pc = "getByBenchId"
  /\ \/ calls' = [calls EXCEPT !.pc = "storage",
                               !.photos = rowsOfBench(db.bench_photos, calls.benchId)]
     \/ calls' = [calls EXCEPT !.pc = "thrown"]
  /\ UNCHANGED <<db, feed>>
  /\ UNCHANGED searchVars

\* photoService.deleteFromStorage, when there are photos; an error is logged
DeleteFromStorage ==
  /\ ~DeleteEnded
  /\ calls.pc = "storage"
  /\ IF calls.photos = {}
     THEN /\ calls' = [calls EXCEPT !.pc = nextDeleteStep("storage")]
          /\ UNCHANGED db
     ELSE \/ /\ db' = [db EXCEPT !.storage = @ \ {p.photo_url : p \in calls.photos}]
             /\ calls' = [calls EXCEPT !.pc = nextDeleteStep("storage")]
          \/ /\ calls' = [calls EXCEPT !.pc = nextDeleteStep("storage"), !.logged = TRUE]
             /\ UNCHANGED db
  /\ UNCHANGED feed
  /\ UNCHANGED searchVars

\* deleteByBenchId of the photo, rating, comment and favorite services; an
\* error is logged
DeleteChildRows ==
  /\ ~DeleteEnded
  /\ calls.pc \in ChildTables
  /\ \/ /\ db' = deleteByBenchId(db, calls.pc, calls.benchId)
        /\ calls' = [calls EXCEPT !.pc = nextDeleteStep(calls.pc)]
     \/ /\ calls' = [calls EXCEPT !.pc = nextDeleteStep(calls.pc), !.logged = TRUE]
        /\ UNCHANGED db
  /\ UNCHANGED feed
  /\ UNCHANGED searchVars

\* the delete on benches: refused by the backend while the row to delete is
\* referenced (the error is thrown), else done, and delete returns true
DeleteBench ==
  /\ ~DeleteEnded
  /\ calls.pc = "benches"
  /\ IF deleteBenchRow(db, calls.benchId, calls.userId) # db /\ referenced(db, calls.benchId)
     THEN /\ calls' = [calls EXCEPT !.pc = "thrown"]
          /\ UNCHANGED db
     ELSE \/ /\ db' = deleteBenchRow(db, calls.benchId, calls.userId)
             /\ calls' = [calls EXCEPT !.pc = "returned"]
          \/ /\ calls' = [calls EXCEPT !.pc = "thrown"]
             /\ UNCHANGED db
  /\ UNCHANGED feed
  /\ UNCHANGED searchVars

DeleteNext ==
  \/ \E benchId \in {1, 2}, userId \in {1, 2} : DeleteCall(benchId, userId)
  \/ DeleteGetPhotos
  \/ DeleteFromStorage
  \/ DeleteChildRows
  \/ DeleteBench

DeleteSpec == DeleteInit /\ [][DeleteNext]_vars

\* ------------------------------------------------------------------------
\* photoService.setPrimary
\* ------------------------------------------------------------------------

\* the callers whose setPrimary calls may overlap
Callers == {1, 2}

\* bench 1 with photos 1 and 2, photo 1 the primary one
PhotoTables ==
  [bench_photos |-> [photoId \in {1, 2} |-> [bench_id |-> 1, is_primary |-> photoId = 1]]]

\* .update({ is_primary: false }).eq('bench_id', benchId)
unsetPrimary(photos, benchId) ==
  [p \in DOMAIN photos |->
     IF photos[p].bench_id = benchId THEN [photos[p] EXCEPT !.is_primary = FALSE]
     ELSE photos[p]]

\* .update({ is_primary: true }).eq('id', photoId)
setPrimaryPhoto(photos, photoId) == [photos EXCEPT ![photoId].is_primary = TRUE]

NoCall == [pc |-> "idle", photoId |-> 0, benchId |-> 0]

PhotoInit ==
  /\ SearchIdle
  /\ db = PhotoTables
  /\ calls = [c \in Callers |-> NoCall]
  /\ feed = <<>>

\* setPrimary(photoId, benchId) is called and sends the first update
SetPrimaryCall(c, photoId, benchId) ==
  /\ calls[c].pc \in {"idle", "returned", "thrown"}
  /\ calls' = [calls EXCEPT ![c] = [pc |-> "unset", photoId |-> photoId, benchId |-> benchId]]
  /\ UNCHANGED <<db, feed>>
  /\ UNCHANGED searchVars

\* the first update is done, or fails and the error is thrown
SetPrimaryUnset(c) ==
  /\ calls[c].pc = "unset"
  /\ \/ /\ db' = [db EXCEPT !.bench_photos = unsetPrimary(@, calls[c].benchId)]
        /\ calls' = [calls EXCEPT ![c].pc = "set"]
     \/ /\ calls' = [calls EXCEPT ![c].pc = "thrown"]
        /\ UNCHANGED db
  /\ UNCHANGED feed
  /\ UNCHANGED searchVars

\* the second update is done and setPrimary returns, or fails and the error
\* is thrown
SetPrimarySet(c) ==
  /\ calls[c].pc = "set"
  /\ \/ /\ db' = [db EXCEPT !.bench_photos = setPrimaryPhoto(@, calls[c].photoId)]
        /\ calls' = [calls EXCEPT ![c].pc = "returned"]
     \/ /\ calls' = [calls EXCEPT ![c].pc = "thrown"]
        /\ UNCHANGED db
  /\ UNCHANGED feed
  /\ UNCHANGED searchVars

PhotoNext ==
  \/ \E c \in Callers, photoId \in {1, 2} : SetPrimaryCall(c, photoId, 1)
  \/ \E c \in Callers : SetPrimaryUnset(c)
  \/ \E c \in Callers : SetPrimarySet(c)

PhotoSpec == PhotoInit /\ [][PhotoNext]_vars

\* ------------------------------------------------------------------------
\* favoriteService.toggle
\* ------------------------------------------------------------------------

\* how many toggle calls are made in all
MaxToggles == 3

\* the one (user_id, bench_id) pair the calls are about
FavoriteKey == <<1, 1>>

\* isFavorite: !!data of the select of the row
isFavorite(favorites) == FavoriteKey \in favorites

NoToggle == [pc |-> "idle", isFav |-> FALSE, returns |-> FALSE]

FavoriteInit ==
  /\ SearchIdle
  /\ \E favorites \in SUBSET {FavoriteKey} :
       /\ db = [favorites |-> favorites]
       /\ calls = [procs |-> [c \in Callers |-> NoToggle],
                   initially |-> isFavorite(favorites),
                   started |-> 0,
                   succeeded |-> 0]
  /\ feed = <<>>

\* toggle(benchId, userId) is called and sends the select of isFavorite
ToggleCall(c) ==
  /\ calls.procs[c].pc \in {"idle", "returned", "thrown"}
  /\ calls.started < MaxToggles
  /\ calls' = [calls EXCEPT !.procs[c] = [NoToggle EXCEPT !.pc = "isFavorite"],
                            !.started = @ + 1]
  /\ UNCHANGED <<db, feed>>
  /\ UNCHANGED searchVars

\* isFavorite answers with what is stored now, or throws
ToggleIsFavorite(c) ==
  /\ calls.procs[c].pc = "isFavorite"
  /\ \/ calls' = [calls EXCEPT !.procs[c].pc = "write",
                               !.procs[c].isFav = isFavorite(db.favorites)]
     \/ calls' = [calls EXCEPT !.procs[c].pc = "thrown"]
  /\ UNCHANGED <<db, feed>>
  /\ UNCHANGED searchVars

\* if (isFav) remove and return false: the delete of no row is no error
ToggleRemove(c) ==
  /\ calls.procs[c].pc = "write"
  /\ calls.procs[c].isFav
  /\ \/ /\ db' = [db EXCEPT !.favorites = @ \ {FavoriteKey}]
        /\ calls' = [calls EXCEPT !.procs[c].pc = "returned",
                                  !.procs[c].returns = FALSE,
                                  !.succeeded = @ + 1]
     \/ /\ calls' = [calls EXCEPT !.procs[c].pc = "thrown"]
        /\ UNCHANGED db
  /\ UNCHANGED feed
  /\ UNCHANGED searchVars

\* else add and return true: the insert of a row that is there breaks the
\* primary key (user_id + bench_id) and throws
ToggleAdd(c) ==
  /\ calls.procs[c].pc = "write"
  /\ ~calls.procs[c].isFav
  /\ \/ /\ FavoriteKey \notin db.favorites
        /\ db' = [db EXCEPT !.favorites = @ \cup {FavoriteKey}]
        /\ calls' = [calls EXCEPT !.procs[c].pc = "returned",
                                  !.procs[c].returns = TRUE,
                                  !.succeeded = @ + 1]
     \/ /\ calls' = [calls EXCEPT !.procs[c].pc = "thrown"]
        /\ UNCHANGED db
  /\ UNCHANGED feed
  /\ UNCHANGED searchVars

FavoriteNext ==
  \/ \E c \in Callers : ToggleCall(c)
  \/ \E c \in Callers : ToggleIsFavorite(c)
  \/ \E c \in Callers : ToggleRemove(c)
  \/ \E c \in Callers : ToggleAdd(c)

FavoriteSpec == FavoriteInit /\ [][FavoriteNext]_vars

\* ------------------------------------------------------------------------
\* Notifications: commentService.create, commentLikeService.toggle,
\* mentionService.createMentionNotifications, notificationService.create
\* ------------------------------------------------------------------------

\* how many service calls are made in all
MaxNotifyCalls == 2

\* profiles: the username of a user stands for the user's id
UserSeq == <<1, 2>>
Users == {UserSeq[i] : i \in DOMAIN UserSeq}

\* a comment text: empty or not, and the users its @names match
CommentTexts ==
  {[empty |-> TRUE, mentions |-> {}]}
    \cup {[empty |-> FALSE, mentions |-> m] : m \in SUBSET Users}

NotificationTypes == {"comment", "reply", "mention", "comment_like"}

\* the backend request of a call that fails, if any
NotifyFailures ==
  {"none", "insert", "benchRead", "notifyOwner", "parentRead", "notifyParent",
   "profilesRead", "mentionInsert"}

\* the ids comments can have: the stored one and one per call
CommentIds == 1..(MaxNotifyCalls + 1)

\* bench 1 of user 1, with one comment by its owner
NotifyTables ==
  [benches |-> [benchId \in {1} |-> [user_id |-> 1]],
   comments |-> <<[bench_id |-> 1, user_id |-> 1, parent_id |-> 0]>>,
   comment_likes |-> {},
   notifications |-> <<>>]

Notification(userId, actorId, type) ==
  [user_id |-> userId, actor_id |-> actorId, type |-> type]

\* commentCreateSchema: text min(1)
commentCreateSchemaAccepts(text) == ~text.empty

notificationCreateAlways(userId, actorId, type) ==
  <<Notification(userId, actorId, type)>>

\* notificationService.create: the rows it inserts
notificationCreate(userId, actorId, type) ==
  IF userId = actorId THEN <<>>
  ELSE <<Notification(userId, actorId, type)>>

\* createMentionNotifications: the rows of its one insert
createMentionNotifications(text, actorId, failure) ==
  IF text.mentions = {} \/ failure \in {"profilesRead", "mentionInsert"} THEN <<>>
  ELSE LET users == SelectSeq(UserSeq, LAMBDA u : u \in text.mentions)
           others == SelectSeq(users, LAMBDA u : u # actorId)
       IN  [i \in DOMAIN others |-> Notification(others[i], actorId, "mention")]

\* commentService.create: the notification for the bench owner
ownerNotification(tables, benchId, userId, failure) ==
  IF failure # "benchRead" /\ tables.benches[benchId].user_id # userId
  THEN notificationCreate(tables.benches[benchId].user_id, userId, "comment")
  ELSE <<>>

\* commentService.create: the notification for the parent comment's author
parentNotification(tables, userId, parentId, failure) ==
  IF parentId # 0 /\ failure # "parentRead"
       /\ tables.comments[parentId].user_id # userId
  THEN notificationCreate(tables.comments[parentId].user_id, userId, "reply")
  ELSE <<>>

\* commentService.create: where it throws, "" when it returns
commentCreateThrows(tables, benchId, userId, text, parentId, failure) ==
  IF ~commentCreateSchemaAccepts(text) THEN "validation"
  ELSE IF failure = "insert" \/ parentId > Len(tables.comments) THEN "insert"
  ELSE IF failure = "notifyOwner"
            /\ ownerNotification(tables, benchId, userId, failure) # <<>>
       THEN "notifyOwner"
  ELSE IF failure = "notifyParent"
            /\ parentNotification(tables, userId, parentId, failure) # <<>>
       THEN "notifyParent"
  ELSE ""

\* commentService.create: the notifications it has inserted when it ends
commentCreateNotifications(tables, benchId, userId, text, parentId, failure) ==
  LET thrown == commentCreateThrows(tables, benchId, userId, text, parentId, failure)
  IN  IF thrown \in {"validation", "insert", "notifyOwner"} THEN <<>>
      ELSE IF thrown = "notifyParent"
           THEN ownerNotification(tables, benchId, userId, failure)
      ELSE ownerNotification(tables, benchId, userId, failure)
             \o parentNotification(tables, userId, parentId, failure)
             \o createMentionNotifications(text, userId, failure)

NotifyCall(op, actor, commentId, created, outcome) ==
  [op |-> op, actor |-> actor, commentId |-> commentId, created |-> created,
   outcome |-> outcome, count |-> calls.count + 1]

NotifyInit ==
  /\ SearchIdle
  /\ db = NotifyTables
  /\ calls = [op |-> "none", actor |-> 0, commentId |-> 0, created |-> <<>>,
              outcome |-> "none", count |-> 0]
  /\ feed = <<>>

\* commentService.create({ benchId, userId, text, parentId })
CommentCreate(benchId, userId, text, parentId, failure) ==
  /\ calls.count < MaxNotifyCalls
  /\ LET thrown == commentCreateThrows(db, benchId, userId, text, parentId, failure)
         created == commentCreateNotifications(db, benchId, userId, text, parentId, failure)
     IN  /\ db' = IF thrown \in {"validation", "insert"} THEN db
                  ELSE [db EXCEPT
                          !.comments = Append(@, [bench_id |-> benchId,
                                                  user_id |-> userId,
                                                  parent_id |-> parentId]),
                          !.notifications = @ \o created]
         /\ calls' = NotifyCall("commentCreate", userId, parentId, created,
                                IF thrown = "" THEN "returned" ELSE "thrown")
  /\ UNCHANGED feed
  /\ UNCHANGED searchVars

\* commentLikeService.toggle(commentId, userId)
CommentLikeToggle(commentId, userId, failure) ==
  /\ calls.count < MaxNotifyCalls
  /\ IF <<commentId, userId>> \in db.comment_likes
     THEN /\ db' = [db EXCEPT !.comment_likes = @ \ {<<commentId, userId>>}]
          /\ calls' = NotifyCall("likeToggle", userId, commentId, <<>>, "false")
     ELSE IF commentId > Len(db.comments)
     THEN /\ db' = db
          /\ calls' = NotifyCall("likeToggle", userId, commentId, <<>>, "true")
     ELSE LET rows == notificationCreate(db.comments[commentId].user_id, userId,
                                         "comment_like")
              created ==
                IF failure \in {"parentRead", "notifyParent"} THEN <<>> ELSE rows
              throws == failure = "notifyParent" /\ rows # <<>>
          IN  /\ db' = [db EXCEPT !.comment_likes = @ \cup {<<commentId, userId>>},
                                  !.notifications = @ \o created]
              /\ calls' = NotifyCall("likeToggle", userId, commentId, created,
                                     IF throws THEN "thrown" ELSE "true")
  /\ UNCHANGED feed
  /\ UNCHANGED searchVars

\* mentionService.createMentionNotifications(text, actorId, benchId)
CreateMentionNotifications(text, actorId, failure) ==
  /\ calls.count < MaxNotifyCalls
  /\ LET created == createMentionNotifications(text, actorId, failure)
     IN  /\ db' = [db EXCEPT !.notifications = @ \o created]
         /\ calls' = NotifyCall("mentions", actorId, 0, created, "returned")
  /\ UNCHANGED feed
  /\ UNCHANGED searchVars

\* notificationService.create({ userId, actorId, type })
NotificationCreate(userId, actorId, type, failure) ==
  /\ calls.count < MaxNotifyCalls
  /\ LET rows == notificationCreate(userId, actorId, type)
         created == IF failure = "insert" THEN <<>> ELSE rows
     IN  /\ db' = [db EXCEPT !.notifications = @ \o created]
         /\ calls' = NotifyCall("notificationCreate", actorId, 0, created,
                                IF failure = "insert" /\ rows # <<>>
                                THEN "thrown" ELSE "returned")
  /\ UNCHANGED feed
  /\ UNCHANGED searchVars

NotifyNext ==
  \/ \E userId \in Users, text \in CommentTexts,
        parentId \in {0} \cup CommentIds, failure \in NotifyFailures :
       CommentCreate(1, userId, text, parentId, failure)
  \/ \E commentId \in CommentIds, userId \in Users,
        failure \in {"none", "parentRead", "notifyParent"} :
       CommentLikeToggle(commentId, userId, failure)
  \/ \E text \in CommentTexts, actorId \in Users,
        failure \in {"none", "profilesRead", "mentionInsert"} :
       CreateMentionNotifications(text, actorId, failure)
  \/ \E userId \in Users, actorId \in Users, type \in NotificationTypes,
        failure \in {"none", "insert"} :
       NotificationCreate(userId, actorId, type, failure)

NotifySpec == NotifyInit /\ [][NotifyNext]_vars

\* ------------------------------------------------------------------------
\* FeedScreen.toggleFavorite
\* ------------------------------------------------------------------------

\* how many times the favorite button of the bench is tapped in all
MaxTaps == 3

\* favorites rows of bench 1: the user's own and another user's
FeedFavorites == {FavoriteKey, <<2, 1>>}

Max(a, b) == IF a >= b THEN a ELSE b

\* the optimistic update of favorites[benchId] and favoriteCounts[benchId]
optimisticUpdate(f, wasFavorite) ==
  [favorite |-> ~wasFavorite,
   count |-> IF wasFavorite THEN Max(0, f.count - 1) ELSE f.count + 1]

\* the update in the catch block
revertOnError(f, wasFavorite) ==
  [favorite |-> wasFavorite,
   count |-> IF wasFavorite THEN f.count + 1 ELSE Max(0, f.count - 1)]

\* the feed has been fetched: getBatchData answered, or failed and the empty
\* values were set
FeedInit ==
  /\ SearchIdle
  /\ \E favorites \in SUBSET FeedFavorites :
       /\ db = [favorites |-> favorites]
       /\ \/ feed = [favorite |-> isFavorite(favorites),
                     count |-> Cardinality(favorites)]
          \/ feed = [favorite |-> FALSE, count |-> 0]
  /\ calls = <<>>

\* toggleFavorite(benchId) up to its await; a tap that starts while another
\* is in flight marks both as overlapping
TapFavorite ==
  /\ Len(calls) < MaxTaps
  /\ feed' = optimisticUpdate(feed, feed.favorite)
  /\ LET overlaps == \E t \in DOMAIN calls : calls[t].pc = "toggle"
     IN  calls' = Append([t \in DOMAIN calls |->
                            IF calls[t].pc = "toggle"
                            THEN [calls[t] EXCEPT !.alone = FALSE]
                            ELSE calls[t]],
                         [pc |-> "toggle", wasFavorite |-> feed.favorite,
                          before |-> feed, alone |-> ~overlaps])
  /\ UNCHANGED db
  /\ UNCHANGED searchVars

\* api.favorites.toggle returns the new status, which is displayed
ToggleReturns(t) ==
  /\ t \in DOMAIN calls
  /\ calls[t].pc = "toggle"
  /\ LET newStatus == ~isFavorite(db.favorites)
     IN  /\ db' = [db EXCEPT !.favorites =
                     IF newStatus THEN @ \cup {FavoriteKey} ELSE @ \ {FavoriteKey}]
         /\ feed' = [feed EXCEPT !.favorite = newStatus]
  /\ calls' = [calls EXCEPT ![t].pc = "done"]
  /\ UNCHANGED searchVars

\* api.favorites.toggle throws: the catch block reverts
ToggleThrows(t) ==
  /\ t \in DOMAIN calls
  /\ calls[t].pc = "toggle"
  /\ feed' = revertOnError(feed, calls[t].wasFavorite)
  /\ calls' = [calls EXCEPT ![t].pc = "reverted"]
  /\ UNCHANGED db
  /\ UNCHANGED searchVars

FeedNext ==
  \/ TapFavorite
  \/ \E t \in 1..MaxTaps : ToggleReturns(t)
  \/ \E t \in 1..MaxTaps : ToggleThrows(t)

FeedSpec == FeedInit /\ [][FeedNext]_vars

\* ------------------------------------------------------------------------
\* Properties of benchService.search
\* ------------------------------------------------------------------------

Returned == pc = "returned"

\* the records the backend returned to the call
rows == supabaseQuery(benches, opts.query, opts.viewType)

Ids(seq) == [i \in 1..Len(seq) |-> seq[i].id]
IdSet(seq) == {seq[i].id : i \in 1..Len(seq)}
InputPos(id) == CHOOSE i \in 1..Len(rows) : rows[i].id = id
Unset(x) == x.type \in {"undefined", "null"}

\* the limit of the distance filter: 10 km when maxDistance is left out
DistanceLimit ==
  IF opts.maxDistance.type = "undefined" THEN Num(DefaultMaxDistance * KmUnit)
  ELSE opts.maxDistance

DistanceFilterActive == Truthy(opts.userLocation) /\ DistanceLimit # Null

\* the record is within the limit of the user's location
InRange(b) ==
  LET d == distanceOf(b, opts.userLocation)
  IN  d.type = "number" /\ d.val <= DistanceLimit.val

\* the record passes the rating filter
RatingPasses(b) ==
  Truthy(opts.ratingFilter) => avgRatingOf(b.bench_ratings) >= opts.ratingFilter.val

NoTextTypeRating ==
  opts.query = Undefined /\ opts.viewType = Undefined /\ Unset(opts.ratingFilter)

\* every fetched record is in the result exactly once, with its fields
EveryRecordOnce ==
  /\ Len(result) = Len(benches)
  /\ \A i \in 1..Len(benches) :
       /\ Cardinality({k \in 1..Len(result) : result[k].id = benches[i].id}) = 1
       /\ \A k \in 1..Len(result) :
            result[k].id = benches[i].id =>
              \A f \in DOMAIN benches[i] : result[k][f] = benches[i][f]

\* the options of the two-record scenario, with the given maxDistance
ScenarioOpts(maxDistance) ==
  [query |-> Undefined, viewType |-> Undefined, ratingFilter |-> Undefined,
   sortBy |-> Str("distance"), userLocation |-> LocA, maxDistance |-> maxDistance]

\* within 100 m of 111.2 km
About111km(d) == d.type = "number" /\ 111200 - 100 <= d.val /\ d.val <= 111200 + 100

C3_DefaultSortIsDistance ==
  (Returned /\ opts.sortBy = Undefined /\ Truthy(opts.userLocation)) =>
    result \in searchResults(rows, [opts EXCEPT !.sortBy = Str("distance")])

\* C4: a record with no ratings gets avgRating 0; it is not in the result for
\* any ratingFilter greater than 0; with ratingFilter null, undefined or 0 it
\* is in the result exactly when the distance filter keeps it.
C4_ZeroRatings ==
  Returned =>
    /\ \A k \in 1..Len(result) :
         result[k].bench_ratings = <<>> => result[k].avgRating = 0
    /\ \A i \in 1..Len(rows) :
         rows[i].bench_ratings = <<>> =>
           /\ (opts.ratingFilter.type = "number" /\ opts.ratingFilter.val > 0) =>
                rows[i].id \notin IdSet(result)
           /\ opts.ratingFilter \in {Null, Undefined, Num(0)} =>
                (rows[i].id \in IdSet(result)
                   <=> (DistanceFilterActive => InRange(rows[i])))

C4_Witness ==
  /\ Returned
  /\ opts.ratingFilter = Num(RatingUnit \div 100)
  /\ ~DistanceFilterActive
  /\ \E i \in 1..Len(rows) : rows[i] = bench1
  /\ result # <<>>
  /\ 1 \notin IdSet(result)

\* the pool of all the view and comfort scores of a record
RECURSIVE PooledScores(_)
PooledScores(ratings) ==
  IF ratings = <<>> THEN <<>>
  ELSE <<ratings[1].view_rating, ratings[1].comfort_rating>> \o PooledScores(Tail(ratings))

RECURSIVE SeqSum(_)
SeqSum(seq) == IF seq = <<>> THEN 0 ELSE seq[1] + SeqSum(Tail(seq))

\* C5: for every record with a rating, avgRating is the mean of the pool of all
\* its view and comfort scores; ratings (1,1) and (5,5) give exactly 3.
C5_PooledMean ==
  Returned =>
    \A k \in 1..Len(result) :
      result[k].bench_ratings # <<>> =>
        /\ result[k].avgRating * Len(PooledScores(result[k].bench_ratings))
             = SeqSum(PooledScores(result[k].bench_ratings)) * RatingUnit
        /\ result[k].bench_ratings = <<Rating(1, 1), Rating(5, 5)>> =>
             result[k].avgRating = 3 * RatingUnit

C5_Witness ==
  /\ Returned
  /\ \E k \in 1..Len(result) : result[k].id = 3 /\ result[k].avgRating = 3 * RatingUnit
  /\ \E k \in 1..Len(result) : result[k].id = 4 /\ result[k].avgRating = 3 * RatingUnit

\* C6: with a userLocation and a maxDistance that is not null, a fetched record
\* is in the result if and only if it passes the rating filter and its
\* distance is at most maxDistance.
C6_DistanceFilter ==
  (Returned /\ DistanceFilterActive) =>
    \A i \in 1..Len(rows) :
      rows[i].id \in IdSet(result) <=> (RatingPasses(rows[i]) /\ InRange(rows[i]))

\* a record at exactly maxDistance > 0 is kept while another is dropped
C6_Witness ==
  /\ Returned
  /\ DistanceFilterActive
  /\ opts.maxDistance.type = "number"
  /\ opts.maxDistance.val > 0
  /\ \E k \in 1..Len(result) : result[k].distance = opts.maxDistance
  /\ Len(result) < Len(rows)

\* C7: without a userLocation the processing of the fetched records yields a
\* result, every record of the result has distance null, and the result is the
\* same for every maxDistance.
C7_NoUserLocation ==
  /\ (pc = "awaiting" /\ ~Truthy(opts.userLocation)) => searchResults(rows, opts) # {}
  /\ (Returned /\ ~Truthy(opts.userLocation)) =>
       /\ \A k \in 1..Len(result) : result[k].distance = Null
       /\ \A md \in MaxDistances :
            searchResults(rows, [opts EXCEPT !.maxDistance = md]) = {result}

C7_Witness ==
  /\ Returned
  /\ ~Truthy(opts.userLocation)
  /\ opts.maxDistance = Num(0)
  /\ Len(result) = 3
  /\ \A k \in 1..Len(result) : result[k].distance = Null

\* C8: with sortBy 'distance' and no userLocation, the records that pass the
\* filters are returned in the order they were fetched.
C8_NoLocationKeepsOrder ==
  (Returned /\ opts.sortBy = Str("distance") /\ ~Truthy(opts.userLocation)) =>
    Ids(result) = Ids(SelectSeq(rows, LAMBDA b : RatingPasses(b)))

\* fetched in an order that is neither by rating nor by created_at
C8_Witness ==
  /\ Returned
  /\ opts.sortBy = Str("distance")
  /\ ~Truthy(opts.userLocation)
  /\ Ids(result) = <<4, 2, 1>>

\* C9: with sortBy 'distance' and a userLocation the known distances of the
\* result are in non-decreasing order, a record with null distance comes after
\* every record with a known distance, and records at the same distance keep
\* the order they were fetched in.
C9_SortedByDistance ==
  (Returned /\ opts.sortBy = Str("distance") /\ Truthy(opts.userLocation)) =>
    \A i, j \in 1..Len(result) :
      i < j =>
        /\ (result[i].distance.type = "number" /\ result[j].distance.type = "number") =>
             /\ result[i].distance.val <= result[j].distance.val
             /\ result[i].distance.val = result[j].distance.val =>
                  InputPos(result[i].id) < InputPos(result[j].id)
        /\ result[i].distance = Null => result[j].distance.type # "number"

\* C10: with sortBy 'rating' the result is in non-increasing order of
\* avgRating, records with the same avgRating keep the order they were fetched
\* in, and the order returned is the only one the input can yield.
C10_SortedByRating ==
  (Returned /\ opts.sortBy = Str("rating")) =>
    /\ \A i, j \in 1..Len(result) :
         i < j =>
           /\ result[i].avgRating >= result[j].avgRating
           /\ result[i].avgRating = result[j].avgRating =>
                InputPos(result[i].id) < InputPos(result[j].id)
    /\ searchResults(rows, opts) = {result}

\* two records of the same average after a better one fetched last
C10_Witness ==
  /\ Returned
  /\ opts.sortBy = Str("rating")
  /\ Ids(benches) = <<4, 3, 2>>
  /\ Ids(result) = <<2, 4, 3>>
  /\ result[2].avgRating = result[3].avgRating
\* C11: with sortBy 'recent' the result is in non-increasing order of
\* created_at, and records with the same created_at keep the order they were
\* fetched in.
C11_SortedByRecent ==
  (Returned /\ opts.sortBy = Str("recent")) =>
    \A i, j \in 1..Len(result) :
      i < j =>
        /\ result[i].created_at >= result[j].created_at
        /\ result[i].created_at = result[j].created_at =>
             InputPos(result[i].id) < InputPos(result[j].id)

TextPasses(b) ==
  Truthy(TrimmedQuery(opts.query)) =>
    Ilike(b.title, <<"%">> \o TrimmedQuery(opts.query).val \o <<"%">>)

\* the record passes the view type filter
TypePasses(b) == Truthy(opts.viewType) => b.view_type = opts.viewType.val

\* one of the four filters alone, on an array of processed records
ApplyFilter(n, seq) ==
  CASE n = 1 -> supabaseQuery(seq, opts.query, Undefined)
    [] n = 2 -> supabaseQuery(seq, Undefined, opts.viewType)
    [] n = 3 -> distanceFilter(seq, opts.userLocation, maxDistanceParam(opts.maxDistance))
    [] n = 4 -> ratingFilterStep(seq, opts.ratingFilter)

FilterOrders == Permutations(1..4)

\* the four filters applied in the order p
ApplyOrder(p, seq) == ApplyFilter(p[4], ApplyFilter(p[3], ApplyFilter(p[2], ApplyFilter(p[1], seq))))

\* C13: the result holds exactly the records of the table that pass every
\* active filter (text, view type, distance, rating), and the four filters
\* applied in any order keep the same set of records.
C13_FiltersConjunctiveCommute ==
  Returned =>
    /\ IdSet(result) =
         {benches[i].id : i \in {k \in 1..Len(benches) :
            /\ TextPasses(benches[k])
            /\ TypePasses(benches[k])
            /\ DistanceFilterActive => InRange(benches[k])
            /\ RatingPasses(benches[k])}}
    /\ LET processed == processAll(benches, opts.userLocation)
       IN  \A p \in FilterOrders : IdSet(ApplyOrder(p, processed)) = IdSet(result)

\* "ocean" and "pier" with a distance and a rating filter: of three records,
\* each failing another filter, one is left
C13_Witness ==
  /\ Returned
  /\ Truthy(TrimmedQuery(opts.query))
  /\ Truthy(opts.viewType)
  /\ Truthy(opts.ratingFilter)
  /\ DistanceFilterActive
  /\ Len(benches) = 3
  /\ \E i \in 1..3 : ~TextPasses(benches[i]) /\ TypePasses(benches[i])
  /\ \E i \in 1..3 : ~TypePasses(benches[i]) /\ TextPasses(benches[i])
  /\ Ids(result) = <<3>>

\* the title contains q, letter case apart
ContainsLiteral(title, q) ==
  \E i \in 0..(Len(title) - Len(q)) :
    \A j \in 1..Len(q) : Lower(title[i + j]) = Lower(q[j])

\* C14: a query that is not empty after trimming keeps exactly the records
\* whose title contains the trimmed query as a literal case-insensitive
\* substring, also when the query holds '%' or '_'; an empty or blank query
\* filters nothing.
C14_LiteralSubstring ==
  (Returned /\ opts.query.type = "text") =>
    IdSet(data) =
      {benches[i].id : i \in {k \in 1..Len(benches) :
         /\ TypePasses(benches[k])
         /\ Trim(opts.query.val) # <<>> =>
              ContainsLiteral(benches[k].title, Trim(opts.query.val))}}

\* C15: with maxDistance 0 and a userLocation the distance filter is applied:
\* the result holds exactly the fetched records at distance 0 that pass the
\* rating filter.
C15_ZeroMaxDistance ==
  (Returned /\ Truthy(opts.userLocation) /\ opts.maxDistance = Num(0)) =>
    /\ \A k \in 1..Len(result) : result[k].distance = Num(0)
    /\ IdSet(result) =
         {rows[i].id : i \in {k \in 1..Len(rows) :
            /\ RatingPasses(rows[k])
            /\ distanceOf(rows[k], opts.userLocation) = Num(0)}}

\* the record at the user's place is returned, two others are not
C15_Witness ==
  /\ Returned
  /\ opts.userLocation = LocA
  /\ opts.maxDistance = Num(0)
  /\ Len(rows) = 3
  /\ Ids(result) = <<1>>
  /\ result[1].latitude = 0
  /\ result[1].longitude = 0

\* C16: when a search is superseded while it is in flight its result is
\* discarded: once no search is in flight (none having thrown), the results
\* shown are those of the query made last, whatever the order of the answers.
C16_LatestQueryDisplayed ==
  (inflight = {} /\ issued > 0 /\ ~failed) =>
    screen.results \in
      searchResults(supabaseQuery(benches, screen.searchQuery, screen.viewType),
                    searchArgs(screen))

Measured == measured # Undefined

\* C17: calculateDistance(lat, lon, lat, lon) is exactly 0 for every point.
C17_IdentityDistance ==
  (Measured /\ points[1] = points[3] /\ points[2] = points[4]) => measured = Num(0)

\* a point off the equator and off the prime meridian
C17_Witness ==
  /\ Measured
  /\ points = <<489, 23, 489, 23>>
  /\ measured = Num(0)

\* x and y are numbers no more than a metre apart; NaN is close to nothing
CloseTo(x, y) ==
  /\ x.type = "number"
  /\ y.type = "number"
  /\ Abs(x.val - y.val) <= 1

\* C18: calculateDistance(A, B) equals calculateDistance(B, A), to
\* floating-point tolerance, for all points A and B.
C18_Symmetric ==
  Measured =>
    CloseTo(measured, calculateDistance(points[3], points[4], points[1], points[2]))

\* C19: for valid coordinates calculateDistance returns a number that is not
\* NaN, not negative and at most about pi * 6371 km = 20015 km, the value it
\* has between the poles (90, 0) and (-90, 0).
C19_DistanceRange ==
  Measured =>
    /\ measured.type = "number"
    /\ 0 <= measured.val
    /\ measured.val <= 20016 * KmUnit
    /\ points = <<900, 0, -900, 0>> => 20015 * KmUnit <= measured.val

\* the data-model invariants of a stored bench
StoredValid(b) ==
  /\ Len(b.title) >= 1
  /\ Len(b.title) <= MaxTitleLength
  /\ b.view_type \in viewTypes
  /\ b.latitude >= -90 * 10 /\ b.latitude <= 90 * 10
  /\ b.longitude >= -180 * 10 /\ b.longitude <= 180 * 10

\* C20: after any create and update calls every stored bench has a title of 1
\* to 100 characters, one of the nine view types, and a latitude and a
\* longitude in range.
C20_StoredBenchesValid == \A i \in 1..Len(benches) : StoredValid(benches[i])

\* a whole number from 1 to 5, in tenths
WholeOneToFive(v) == v \in {10 * n : n \in 1..5}

UpsertInputValid(input) ==
  /\ input.viewRating.type = "number"
  /\ input.comfortRating.type = "number"
  /\ WholeOneToFive(input.viewRating.val)
  /\ WholeOneToFive(input.comfortRating.val)

\* C21: every stored rating is a whole number from 1 to 5; an upsert call
\* whose viewRating or comfortRating is anything else throws without a backend
\* call and leaves the stored ratings as they were, and a call that returns
\* has written the two values it was given.
C21_UpsertValidates ==
  /\ [](\A r \in db.bench_ratings :
          WholeOneToFive(r.view_rating) /\ WholeOneToFive(r.comfort_rating))
  /\ [][/\ ~UpsertInputValid(calls'.input) =>
             /\ calls'.outcome = "thrown"
             /\ ~calls'.backend
             /\ db' = db
        /\ calls'.outcome = "returned" =>
             /\ UpsertInputValid(calls'.input)
             /\ ratingRow(calls'.input) \in db'.bench_ratings]_vars

\* a valid rating is stored, and a call with 2.5 has then thrown
C21_Witness ==
  /\ db.bench_ratings # {}
  /\ calls # <<>>
  /\ calls.input.viewRating = Num(25)
  /\ calls.outcome = "thrown"
  /\ ~calls.backend

\* the call in progress is made by a user who does not own the bench
NotOwnerDeleting ==
  /\ ~DeleteEnded
  /\ \E b \in db.benches : b.id = calls.benchId /\ b.user_id # calls.userId

\* C22: delete(benchId, userId) by a user who is not the owner of the bench
\* changes nothing: the bench row, its photos (rows and storage objects),
\* ratings, comments and favorites stay as they are.
C22_DeleteOnlyByOwner == [][NotOwnerDeleting => db' = db]_vars

\* C23: when delete has returned true the bench row is gone and no row of
\* bench_photos, bench_ratings, comments or favorites refers to the bench, and
\* no step of the cleanup has failed.
C23_DeleteComplete ==
  (calls # <<>> /\ calls.pc = "returned") =>
    /\ \A b \in db.benches : b.id # calls.benchId
    /\ ~referenced(db, calls.benchId)
    /\ ~calls.logged

\* C24: every bench has at most one photo with is_primary true, after any
\* setPrimary calls, overlapping or failing.
C24_OnePrimaryPhoto ==
  \A benchId \in {db.bench_photos[p].bench_id : p \in DOMAIN db.bench_photos} :
    Cardinality({p \in DOMAIN db.bench_photos :
                   /\ db.bench_photos[p].bench_id = benchId
                   /\ db.bench_photos[p].is_primary}) <= 1

\* C25: after k toggle calls that returned without error the stored favorite
\* state is the initial one when k is even and the opposite one when k is
\* odd, also when calls overlap.
C25_ToggleFlipsOnce ==
  (isFavorite(db.favorites) = calls.initially) <=> (calls.succeeded % 2 = 0)

\* C26: every notification row has a recipient (user_id) different from its
\* actor (actor_id), after any calls of commentService.create,
\* commentLikeService.toggle, createMentionNotifications and
\* notificationService.create.
C26_NoSelfNotification ==
  \A i \in DOMAIN db.notifications :
    db.notifications[i].user_id # db.notifications[i].actor_id

\* a user has liked their own comment, no row was made for it, and other
\* notifications are stored
C26_Witness ==
  /\ calls.op = "likeToggle"
  /\ calls.outcome = "true"
  /\ calls.commentId <= Len(db.comments)
  /\ db.comments[calls.commentId].user_id = calls.actor
  /\ calls.created = <<>>
  /\ db.notifications # <<>>

\* C27: one commentService.create call creates at most one notification per
\* recipient.
C27_OnePerRecipient ==
  calls.op = "commentCreate" =>
    \A i, j \in DOMAIN calls.created :
      calls.created[i].user_id = calls.created[j].user_id => i = j

\* C28: the loading flag of SearchScreen is true whenever at least one bench
\* search is in flight.
C28_LoadingWhileInFlight == inflight # {} => screen.loading

\* C29: when api.favorites.toggle fails for a tap that no other tap
\* overlapped, the displayed favorite status and count are the values they
\* had before the tap.
C29_RevertedOnFailure ==
  [][\A t \in DOMAIN calls :
       (calls[t].pc = "toggle" /\ calls[t].alone /\ calls'[t].pc = "reverted")
         => feed' = calls[t].before]_vars

\* C30: every returned record has ratingsCount equal to the number of its
\* ratings, avgRating 0 exactly when it has no ratings, and otherwise an
\* avgRating from 1 to 5 (the ratings of the modelled records are integers
\* in 1..5).
C30_RatingSummary ==
  Returned =>
    \A k \in 1..Len(result) :
      /\ result[k].ratingsCount = Len(result[k].bench_ratings)
      /\ result[k].avgRating = 0 <=> result[k].ratingsCount = 0
      /\ result[k].ratingsCount # 0 =>
           /\ result[k].avgRating >= RatingUnit
           /\ result[k].avgRating <= 5 * RatingUnit

\* a result with an unrated record and a record of three ratings
C30_Witness ==
  /\ Returned
  /\ \E k \in 1..Len(result) : result[k].ratingsCount = 0 /\ result[k].avgRating = 0
  /\ \E k \in 1..Len(result) :
       /\ result[k].ratingsCount = 3
       /\ result[k].avgRating = 3 * RatingUnit
       /\ \A i \in 1..3 :
            /\ result[k].bench_ratings[i].view_rating \in 1..5
            /\ result[k].bench_ratings[i].comfort_rating \in 1..5
====
